---- MODULE Spec2Model ----
(***************************************************************************)
(* Model of the banking object model of trilha-python-dio:                 *)
(*   "02 - Programação Orientada a Objetos/10 - desafio/desafio_v1.py"     *)
(*   "04 - Data e hora/desafio/desafio_v1.py"                              *)
(* One account (Conta or ContaCorrente) with its Historico, driven by      *)
(* direct depositar/sacar calls, by Cliente.realizar_transacao with        *)
(* Deposito/Saque objects and by direct calls of the public                *)
(* Historico.adicionar_transacao.  The two files differ in the order of    *)
(* the two checks of Conta.sacar; the variable versao selects the file.    *)
(* The amounts of these calls are integers (Python int arithmetic is       *)
(* exact); the "data" timestamp of a history entry is not modelled.        *)
(* The menu loop of the v04 file (main and its handlers) is modelled over  *)
(* the lists clientes and contas, one action per iteration of the loop;    *)
(* its lines are parsed as str.isdigit, int and float parse them and its   *)
(* amounts are doubles, inf and nan included, added and subtracted with    *)
(* the rounding of the interpreter.                                        *)
(***************************************************************************)
EXTENDS Integers, Sequences, FiniteSets, TLC

\* ---------------------------------------------------------------- bounds
\* deposits are not offered once the balance would pass MaxSaldo
MaxSaldo == 600
\* a transaction that would be recorded is not offered once the history
\* holds MaxTransacoes entries
MaxTransacoes == 3
\* the count of successful direct sacar calls is observed up to MaxSaquesOk
MaxSaquesOk == 3
\* the menu does not offer "nc" once the list contas holds MaxContas accounts
MaxContas == 2
\* the menu does not offer an accepted "nu" once the list clientes holds
\* MaxClientes clientes
MaxClientes == 1
\* the menu does not offer a movement that would be recorded once the
\* histories of its accounts hold MaxTransacoesMenu entries in all
MaxTransacoesMenu == 2

\* ------------------------------------------------------ program constants
\* ContaCorrente.__init__(..., limite=500, limite_saques=3)
LimitePadrao == 500
LimiteSaquesPadrao == 3
\* validar_cpf: len(cpf) != 11
TamanhoCPF == 11

\* ------------------------------------------------------------ input sets
\* amounts offered to the operations: invalid (<= 0), small, above limite
Valores == {-100, 0, 100, 600}
Versoes == {"v02", "v04"}
Classes == {"Conta", "ContaCorrente"}
\* limite_saques given to ContaCorrente.nova_conta: a non-default one, the default
LimitesSaques == {2, LimiteSaquesPadrao}

\* no transaction object (the call was made directly on the account)
NoTransacao == [tipo |-> "None", valor |-> 0]

\* the messages printed by the operations
Sucesso == "Sucesso"
ValorInvalido == "ValorInvalido"
SaldoInsuficiente == "SaldoInsuficiente"
LimiteExcedido == "LimiteExcedido"
SaquesExcedidos == "SaquesExcedidos"

VARIABLES
    versao,         \* which source file the account's classes come from
    classe,         \* class of the account object
    limite,         \* ContaCorrente._limite (0 on a base Conta, which has none)
    limite_saques,  \* ContaCorrente._limite_saques (0 on a base Conta)
    saldo,          \* Conta._saldo
    transacoes,     \* Historico._transacoes, entries [tipo, valor]
    op,             \* the last call made
    valor,          \* its amount argument
    transacao,      \* the transaction object passed to realizar_transacao
    ret,            \* value returned by the account's depositar/sacar
    motivo,         \* message printed by the account's depositar/sacar
    saques_ok,      \* number of direct sacar calls that returned True so far
    pc,             \* main: "menu" in the loop, "fim" after break, "excecao"
                    \* when an exception nobody catches ended the process
    clientes,       \* main's list clientes: the cpf of each PessoaFisica
    contas,         \* main's list contas: [cliente, saldo, transacoes] each
    opcao,          \* the last line read by menu()
    mensagem        \* the outcome printed by the last handler

contaVars == <<versao, classe, limite, limite_saques, saldo, transacoes,
               op, valor, transacao, ret, motivo, saques_ok>>
menuVars == <<pc, clientes, contas, opcao, mensagem>>
vars == <<versao, classe, limite, limite_saques, saldo, transacoes,
          op, valor, transacao, ret, motivo, saques_ok,
          pc, clientes, contas, opcao, mensagem>>

\* ------------------------------------------------------ pure operations

\* Saque.__init__ / Deposito.__init__: store the value, whatever it is
Saque(v) == [tipo |-> "Saque", valor |-> v]
Deposito(v) == [tipo |-> "Deposito", valor |-> v]

\* the transaction objects handed directly to Historico.adicionar_transacao
\* (it takes any Transacao; one object of each class is offered)
TransacoesDiretas == {Saque(v) : v \in {100}} \cup {Deposito(v) : v \in {100}}

\* Historico.adicionar_transacao: append {tipo, valor} at the end
adicionar_transacao(ts, t) == Append(ts, [tipo |-> t.tipo, valor |-> t.valor])

\* the count taking every entry of the history, deposits included
numero_saques_todas(ts) == Len(ts)

\* number of entries of the history whose tipo is "Saque"
RECURSIVE numero_saques(_)
numero_saques(ts) ==
    IF ts = <<>> THEN 0
    ELSE (IF Head(ts).tipo = "Saque" THEN 1 ELSE 0) + numero_saques(Tail(ts))

\* Conta.depositar assigning the amount instead of adding it
Conta_depositar_atribui(s, v) ==
    IF v <= 0
    THEN [ret |-> FALSE, motivo |-> ValorInvalido, saldo |-> s]
    ELSE [ret |-> TRUE, motivo |-> Sucesso, saldo |-> v]

\* Conta.depositar
Conta_depositar(s, v) ==
    IF v <= 0
    THEN [ret |-> FALSE, motivo |-> ValorInvalido, saldo |-> s]
    ELSE [ret |-> TRUE, motivo |-> Sucesso, saldo |-> s + v]

\* Conta.sacar without the test of the amount
Conta_sacar_semValorInvalido(ver, s, v) ==
    IF v > s
    THEN [ret |-> FALSE, motivo |-> SaldoInsuficiente, saldo |-> s]
    ELSE [ret |-> TRUE, motivo |-> Sucesso, saldo |-> s - v]

\* Conta.sacar without the test of the balance
Conta_sacar_semSaldo(ver, s, v) ==
    IF v <= 0
    THEN [ret |-> FALSE, motivo |-> ValorInvalido, saldo |-> s]
    ELSE [ret |-> TRUE, motivo |-> Sucesso, saldo |-> s - v]

\* Conta.sacar refusing to withdraw the whole balance (>= for >)
Conta_sacar_saldoEstrito(ver, s, v) ==
    IF v <= 0
    THEN [ret |-> FALSE, motivo |-> ValorInvalido, saldo |-> s]
    ELSE IF v >= s
         THEN [ret |-> FALSE, motivo |-> SaldoInsuficiente, saldo |-> s]
         ELSE [ret |-> TRUE, motivo |-> Sucesso, saldo |-> s - v]

\* Conta.sacar: v02 tests the amount first, v04 tests the balance first
Conta_sacar(ver, s, v) ==
    IF ver = "v02"
    THEN IF v <= 0
         THEN [ret |-> FALSE, motivo |-> ValorInvalido, saldo |-> s]
         ELSE IF v > s
              THEN [ret |-> FALSE, motivo |-> SaldoInsuficiente, saldo |-> s]
              ELSE [ret |-> TRUE, motivo |-> Sucesso, saldo |-> s - v]
    ELSE IF v > s
         THEN [ret |-> FALSE, motivo |-> SaldoInsuficiente, saldo |-> s]
         ELSE IF v <= 0
              THEN [ret |-> FALSE, motivo |-> ValorInvalido, saldo |-> s]
              ELSE [ret |-> TRUE, motivo |-> Sucesso, saldo |-> s - v]

\* ContaCorrente.sacar allowing one withdrawal too many (> for >=)
ContaCorrente_sacar_umAMais(ver, s, ts, lim, lim_saques, v) ==
    IF v > lim
    THEN [ret |-> FALSE, motivo |-> LimiteExcedido, saldo |-> s]
    ELSE IF numero_saques(ts) > lim_saques
         THEN [ret |-> FALSE, motivo |-> SaquesExcedidos, saldo |-> s]
         ELSE Conta_sacar(ver, s, v)

\* ContaCorrente.sacar without the test of the per-withdrawal limit
ContaCorrente_sacar_semLimite(ver, s, ts, lim, lim_saques, v) ==
    IF numero_saques(ts) >= lim_saques
    THEN [ret |-> FALSE, motivo |-> SaquesExcedidos, saldo |-> s]
    ELSE Conta_sacar(ver, s, v)

\* ContaCorrente.sacar: limite, then count of recorded saques, then Conta.sacar
ContaCorrente_sacar(ver, s, ts, lim, lim_saques, v) ==
    IF v > lim
    THEN [ret |-> FALSE, motivo |-> LimiteExcedido, saldo |-> s]
    ELSE IF numero_saques(ts) >= lim_saques
         THEN [ret |-> FALSE, motivo |-> SaquesExcedidos, saldo |-> s]
         ELSE Conta_sacar(ver, s, v)

\* conta.sacar(v), dispatched on the class of the account
conta_sacar(v) ==
    IF classe = "ContaCorrente"
    THEN ContaCorrente_sacar(versao, saldo, transacoes, limite, limite_saques, v)
    ELSE Conta_sacar(versao, saldo, v)

\* registrar recording the transaction whatever the account answered
registrar_sempre(ts, t, sucesso) == adicionar_transacao(ts, t)

\* Saque.registrar / Deposito.registrar: record only when the account accepted
registrar(ts, t, sucesso) == IF sucesso THEN adicionar_transacao(ts, t) ELSE ts

ContarSaque(n, sucesso) ==
    IF sucesso /\ n < MaxSaquesOk THEN n + 1 ELSE n

\* ------------------------------------------------------------------ state

\* Conta.__init__ / ContaCorrente.__init__ (nova_conta)
Init ==
    /\ versao \in Versoes
    /\ classe \in Classes
    /\ limite = (IF classe = "ContaCorrente" THEN LimitePadrao ELSE 0)
    /\ limite_saques \in (IF classe = "ContaCorrente" THEN LimitesSaques ELSE {0})
    /\ saldo = 0
    /\ transacoes = <<>>
    /\ op = "nova_conta"
    /\ valor = 0
    /\ transacao = NoTransacao
    /\ ret = FALSE
    /\ motivo = "Nenhum"
    /\ saques_ok = 0
    /\ pc = "menu"
    /\ clientes = <<>>
    /\ contas = <<>>
    /\ opcao = ""
    /\ mensagem = "Nenhuma"

\* conta.depositar(v) called directly
Depositar(v) ==
    LET r == Conta_depositar(saldo, v) IN
    /\ r.saldo <= MaxSaldo
    /\ saldo' = r.saldo
    /\ ret' = r.ret
    /\ motivo' = r.motivo
    /\ op' = "depositar"
    /\ valor' = v
    /\ transacao' = NoTransacao
    /\ UNCHANGED <<versao, classe, limite, limite_saques, transacoes, saques_ok>>
    /\ UNCHANGED menuVars

\* conta.sacar(v) called directly
Sacar(v) ==
    LET r == conta_sacar(v) IN
    /\ saldo' = r.saldo
    /\ ret' = r.ret
    /\ motivo' = r.motivo
    /\ op' = "sacar"
    /\ valor' = v
    /\ transacao' = NoTransacao
    /\ saques_ok' = ContarSaque(saques_ok, r.ret)
    /\ UNCHANGED <<versao, classe, limite, limite_saques, transacoes>>
    /\ UNCHANGED menuVars

\* cliente.realizar_transacao(conta, Deposito(v))
RealizarDeposito(v) ==
    LET t == Deposito(v)
        r == Conta_depositar(saldo, t.valor) IN
    /\ r.ret => Len(transacoes) < MaxTransacoes
    /\ r.saldo <= MaxSaldo
    /\ saldo' = r.saldo
    /\ transacoes' = registrar(transacoes, t, r.ret)
    /\ ret' = r.ret
    /\ motivo' = r.motivo
    /\ op' = "realizar_transacao"
    /\ valor' = t.valor
    /\ transacao' = t
    /\ UNCHANGED <<versao, classe, limite, limite_saques, saques_ok>>
    /\ UNCHANGED menuVars

\* cliente.realizar_transacao(conta, Saque(v))
RealizarSaque(v) ==
    LET t == Saque(v)
        r == conta_sacar(t.valor) IN
    /\ r.ret => Len(transacoes) < MaxTransacoes
    /\ saldo' = r.saldo
    /\ transacoes' = registrar(transacoes, t, r.ret)
    /\ ret' = r.ret
    /\ motivo' = r.motivo
    /\ op' = "realizar_transacao"
    /\ valor' = t.valor
    /\ transacao' = t
    /\ UNCHANGED <<versao, classe, limite, limite_saques, saques_ok>>
    /\ UNCHANGED menuVars

\* conta.historico.adicionar_transacao(t) called directly: the entry is
\* appended whatever the account's balance and rules; nothing is returned
AdicionarTransacao(t) ==
    /\ Len(transacoes) < MaxTransacoes
    /\ transacoes' = adicionar_transacao(transacoes, t)
    /\ op' = "adicionar_transacao"
    /\ valor' = t.valor
    /\ transacao' = t
    /\ ret' = FALSE
    /\ motivo' = "Nenhum"
    /\ UNCHANGED <<versao, classe, limite, limite_saques, saldo, saques_ok>>
    /\ UNCHANGED menuVars

Next ==
    \/ \E v \in Valores : Depositar(v)
    \/ \E v \in Valores : Sacar(v)
    \/ \E v \in Valores : RealizarDeposito(v)
    \/ \E v \in Valores : RealizarSaque(v)
    \/ \E t \in TransacoesDiretas : AdicionarTransacao(t)

Spec == Init /\ [][Next]_vars

\* only direct calls on the account, as in the demo run of the v02 file
NextDireto ==
    \/ \E v \in Valores : Depositar(v)
    \/ \E v \in Valores : Sacar(v)

SpecDireto == Init /\ [][NextDireto]_vars

TypeOK ==
    /\ versao \in Versoes
    /\ classe \in Classes
    /\ saldo \in Int
    /\ Len(transacoes) <= MaxTransacoes
    /\ valor \in Valores
    /\ ret \in BOOLEAN
    /\ saques_ok \in 0..MaxSaquesOk

\* ---------------------------------------------------------- console lines
\* A console line is the sequence of the Unicode code points of its
\* characters ("100" is <<49, 48, 48>>).  The character classes are those of
\* the Unicode database of the interpreter (14.0).

\* the digit zero of every decimal script; its nine successors are the other
\* digits of the script (str.isdecimal)
ZerosDecimais ==
    {48, 1632, 1776, 1984, 2406, 2534, 2662, 2790, 2918, 3046, 3174, 3302,
     3430, 3558, 3664, 3792, 3872, 4160, 4240, 6112, 6160, 6470, 6608, 6784,
     6800, 6992, 7088, 7232, 7248, 42528, 43216, 43264, 43472, 43504, 43600,
     44016, 65296, 66720, 68912, 69734, 69872, 69942, 70096, 70384, 70736,
     70864, 71248, 71360, 71472, 71904, 72016, 72784, 73040, 73120, 92768,
     92864, 93008, 120782, 120792, 120802, 120812, 120822, 123200, 123632,
     125264, 130032}

\* characters that str.isdigit accepts and that are not decimal digits
\* (superscripts, circled digits, ...): int and float refuse them
DigitosNaoDecimais ==
    {178, 179, 185, 4969, 4970, 4971, 4972, 4973, 4974, 4975, 4976, 4977,
     6618, 8304, 8308, 8309, 8310, 8311, 8312, 8313, 8320, 8321, 8322, 8323,
     8324, 8325, 8326, 8327, 8328, 8329, 9312, 9313, 9314, 9315, 9316, 9317,
     9318, 9319, 9320, 9332, 9333, 9334, 9335, 9336, 9337, 9338, 9339, 9340,
     9352, 9353, 9354, 9355, 9356, 9357, 9358, 9359, 9360, 9450, 9461, 9462,
     9463, 9464, 9465, 9466, 9467, 9468, 9469, 9471, 10102, 10103, 10104,
     10105, 10106, 10107, 10108, 10109, 10110, 10112, 10113, 10114, 10115,
     10116, 10117, 10118, 10119, 10120, 10122, 10123, 10124, 10125, 10126,
     10127, 10128, 10129, 10130, 68160, 68161, 68162, 68163, 69216, 69217,
     69218, 69219, 69220, 69221, 69222, 69223, 69224, 69714, 69715, 69716,
     69717, 69718, 69719, 69720, 69721, 69722, 127232, 127233, 127234,
     127235, 127236, 127237, 127238, 127239, 127240, 127241, 127242}

\* the blanks int and float strip from both ends of the line
Espacos ==
    {9, 10, 11, 12, 13, 32, 133, 160, 5760, 8192, 8193, 8194, 8195, 8196,
     8197, 8198, 8199, 8200, 8201, 8202, 8232, 8233, 8239, 8287, 12288}

\* is the character a decimal digit (below 128 the ASCII digits are the only ones)
decimal(c) ==
    \/ 48 <= c /\ c <= 57
    \/ 127 < c /\ \E z \in ZerosDecimais : z <= c /\ c <= z + 9

ValorDigito(c) == c - (CHOOSE z \in ZerosDecimais : z <= c /\ c <= z + 9)

\* str.isdigit: at least one character, all of them digits
isdigit(l) ==
    /\ Len(l) > 0
    /\ \A i \in 1..Len(l) : decimal(l[i]) \/ l[i] \in DigitosNaoDecimais

todos_decimais(l) == \A i \in 1..Len(l) : decimal(l[i])

\* the digit values of a sequence of decimal digits
Algarismos(l) == [i \in 1..Len(l) |-> ValorDigito(l[i])]

\* the number written by a sequence of digit values
RECURSIVE Numero(_)
Numero(d) ==
    IF d = <<>> THEN 0
    ELSE 10 * Numero(SubSeq(d, 1, Len(d) - 1)) + d[Len(d)]

\* str.strip as int and float apply it
lstrip(l) ==
    IF \A i \in 1..Len(l) : l[i] \in Espacos THEN <<>>
    ELSE SubSeq(l, CHOOSE i \in 1..Len(l) :
                       l[i] \notin Espacos /\ \A j \in 1..(i - 1) : l[j] \in Espacos,
                Len(l))

rstrip(l) ==
    IF \A i \in 1..Len(l) : l[i] \in Espacos THEN <<>>
    ELSE SubSeq(l, 1, CHOOSE i \in 1..Len(l) :
                          l[i] \notin Espacos /\ \A j \in (i + 1)..Len(l) : l[j] \in Espacos)

strip(l) == rstrip(lstrip(l))

\* an underscore (95) is accepted between two digits only
sublinhados_validos(l) ==
    \A i \in 1..Len(l) :
        l[i] = 95 => /\ 1 < i
                     /\ i < Len(l)
                     /\ decimal(l[i - 1])
                     /\ decimal(l[i + 1])

NaoSublinhado(c) == c # 95

sem_sublinhados(l) == SelectSeq(l, NaoSublinhado)

\* the line without its sign, "+" (43) or "-" (45)
sem_sinal(l) == IF l # <<>> /\ l[1] \in {43, 45} THEN Tail(l) ELSE l

negativo(l) == l # <<>> /\ l[1] = 45

\* a sequence of digit values without its zeros at the left, at the right
sem_zeros_a_esquerda(d) ==
    IF \A i \in 1..Len(d) : d[i] = 0 THEN <<>>
    ELSE SubSeq(d, CHOOSE i \in 1..Len(d) :
                       d[i] # 0 /\ \A j \in 1..(i - 1) : d[j] = 0,
                Len(d))

sem_zeros_a_direita(d) ==
    IF \A i \in 1..Len(d) : d[i] = 0 THEN <<>>
    ELSE SubSeq(d, 1, CHOOSE i \in 1..Len(d) :
                          d[i] # 0 /\ \A j \in (i + 1)..Len(d) : d[j] = 0)

\* int(line): blanks stripped, an optional sign, decimal digits of any script
\* with single underscores between them, and no more than the 4300 digits
\* the interpreter converts; [ok |-> FALSE] stands for ValueError.  A Python
\* int has no width: the value is [neg, dig], dig being its decimal digits
\* without leading zeros (<<>> for 0).
int(l) ==
    LET erro == [ok |-> FALSE, valor |-> [neg |-> FALSE, dig |-> <<>>]]
        inteiro(neg, d) == [ok |-> TRUE, valor |-> [neg |-> neg /\ d # <<>>, dig |-> d]]
        digitos(neg, d, u) ==
            IF /\ d # <<>>
               /\ sublinhados_validos(d)
               /\ todos_decimais(u)
               /\ Len(u) <= 4300
            THEN inteiro(neg, sem_zeros_a_esquerda(Algarismos(u)))
            ELSE erro
        sinal(s, d) == digitos(negativo(s), d, sem_sublinhados(d))
        linha(s) == sinal(s, sem_sinal(s))
    IN  linha(strip(l))

\* ------------------------------------------------------------------ float
\* A float is [t, neg, dig, exp]: t is "fin", "inf" or "nan".  A finite float
\* is a double, written exactly: its value is (-1)^neg * dig * 10^exp, dig
\* being the decimal digits without zeros at either end (<<>> and exp 0 for
\* zero).  A decimal [dig, exp] is a number dig * 10^exp >= 0 written the
\* same way; the doubles are the decimals m * 2^q with m < 2^53 and
\* -1074 <= q <= 971.

\* position of the first character of l that is in S, 0 without one
posicao(l, S) ==
    IF \E i \in 1..Len(l) : l[i] \in S
    THEN CHOOSE i \in 1..Len(l) : l[i] \in S /\ \A j \in 1..(i - 1) : l[j] \notin S
    ELSE 0

\* ASCII letters in lower case
minusculas(l) == [i \in 1..Len(l) |-> IF l[i] \in 65..90 THEN l[i] + 32 ELSE l[i]]

\* the i-th digit of d, 0 outside of it
algarismo(d, i) == IF 1 <= i /\ i <= Len(d) THEN d[i] ELSE 0

\* 0.a < 0.b for two sequences of digit values
fracao_menor(a, b) ==
    LET n == IF Len(a) < Len(b) THEN Len(b) ELSE Len(a)
    IN  /\ \E i \in 1..n : algarismo(a, i) # algarismo(b, i)
        /\ LET p == CHOOSE i \in 1..n :
                        /\ algarismo(a, i) # algarismo(b, i)
                        /\ \A j \in 1..(i - 1) : algarismo(a, j) = algarismo(b, j)
           IN  algarismo(a, p) < algarismo(b, p)

\* the decimal d * 10^e of the digits d
normal(d, e) ==
    LET corta(d1, d2) ==
            IF d2 = <<>> THEN [dig |-> <<>>, exp |-> 0]
            ELSE [dig |-> d2, exp |-> e + Len(d1) - Len(d2)]
        direita(d1) == corta(d1, sem_zeros_a_direita(d1))
    IN  direita(sem_zeros_a_esquerda(d))

\* the decimal x is below 10^ordem(x) and, unless zero, not below
\* 10^(ordem(x) - 1)
ordem(x) == Len(x.dig) + x.exp

\* x < y for two decimals
dec_menor(x, y) ==
    IF y.dig = <<>> THEN FALSE
    ELSE IF x.dig = <<>> THEN TRUE
    ELSE IF ordem(x) # ordem(y) THEN ordem(x) < ordem(y)
    ELSE fracao_menor(x.dig, y.dig)

\* the decimal r * 10^e of digits r with at most one zero at each end
apara(r, e) ==
    [dig |-> SubSeq(r, IF r[1] = 0 THEN 2 ELSE 1,
                    IF r[Len(r)] = 0 THEN Len(r) - 1 ELSE Len(r)),
     exp |-> IF r[Len(r)] = 0 THEN e + 1 ELSE e]

\* 2 * x for a decimal x > 0: a digit is doubled and takes the carry of the
\* digit at its right
dobro(x) ==
    apara([i \in 1..(Len(x.dig) + 1) |->
              ((2 * algarismo(x.dig, i - 1)) % 10)
              + (IF algarismo(x.dig, i) >= 5 THEN 1 ELSE 0)],
          x.exp)

\* x / 2 for a decimal x > 0: a digit is halved and takes the remainder of
\* the digit at its left
metade(x) ==
    apara([i \in 1..(Len(x.dig) + 1) |->
              (algarismo(x.dig, i) \div 2) + 5 * (algarismo(x.dig, i - 1) % 2)],
          x.exp - 1)

\* x * 2^k and x / 2^k
RECURSIVE vezes_dois(_, _)
vezes_dois(x, k) ==
    IF x.dig = <<>> \/ k = 0 THEN x
    ELSE IF k = 1 THEN dobro(x)
    ELSE vezes_dois(vezes_dois(x, k \div 2), k - k \div 2)

RECURSIVE por_dois(_, _)
por_dois(x, k) ==
    IF x.dig = <<>> \/ k = 0 THEN x
    ELSE IF k = 1 THEN metade(x)
    ELSE por_dois(por_dois(x, k \div 2), k - k \div 2)

\* x * 2^q
escala(x, q) == IF q < 0 THEN por_dois(x, 0 - q) ELSE vezes_dois(x, q)

\* 2^52 and 2^53
Dois52 == [dig |-> <<4, 5, 0, 3, 5, 9, 9, 6, 2, 7, 3, 7, 0, 4, 9, 6>>, exp |-> 0]
Dois53 == [dig |-> <<9, 0, 0, 7, 1, 9, 9, 2, 5, 4, 7, 4, 0, 9, 9, 2>>, exp |-> 0]

\* the digits of d + 1
incrementa(d) ==
    IF \A i \in 1..Len(d) : d[i] = 9
    THEN <<1>> \o [i \in 1..Len(d) |-> 0]
    ELSE LET k == CHOOSE i \in 1..Len(d) :
                      d[i] # 9 /\ \A j \in (i + 1)..Len(d) : d[j] = 9
         IN  [i \in 1..Len(d) |->
                 IF i < k THEN d[i] ELSE IF i = k THEN d[i] + 1 ELSE 0]

\* the digits of the integer nearest to the decimal y, the even one of two
inteiro_proximo(y) ==
    LET o == ordem(y)
        i == IF o <= 0 THEN <<>> ELSE [k \in 1..o |-> algarismo(y.dig, k)]
        proximo == IF o < 0 THEN 0 ELSE algarismo(y.dig, o + 1)
        resto == Len(y.dig) > o + 1
        impar == algarismo(y.dig, o) % 2 = 1
    IN  IF proximo > 5 \/ (proximo = 5 /\ (resto \/ impar))
        THEN incrementa(i)
        ELSE sem_zeros_a_esquerda(i)

\* the exponent q and the mantissa x / 2^q of the double next to x: q is
\* the least one from -1074 on that leaves the mantissa below 2^53
RECURSIVE ajusta(_, _)
ajusta(y, q) ==
    IF ~dec_menor(y, Dois53) THEN ajusta(metade(y), q + 1)
    ELSE IF dec_menor(y, Dois52) /\ q > -1074 THEN ajusta(dobro(y), q - 1)
    ELSE [y |-> y, q |-> q]

\* a first exponent for ajusta, from the order of x (3322/1000 for the
\* binary logarithm of ten)
q_inicial(x) ==
    LET q == (((ordem(x) - 1) * 3322) \div 1000) - 52
    IN  IF q < -1074 THEN -1074 ELSE q

nan == [t |-> "nan", neg |-> FALSE, dig |-> <<>>, exp |-> 0]
inf(neg) == [t |-> "inf", neg |-> neg, dig |-> <<>>, exp |-> 0]
zero(neg) == [t |-> "fin", neg |-> neg, dig |-> <<>>, exp |-> 0]
finito(neg, x) == [t |-> "fin", neg |-> neg, dig |-> x.dig, exp |-> x.exp]

RECURSIVE Pot(_, _)
Pot(b, e) == IF e = 0 THEN 1 ELSE b * Pot(b, e - 1)

\* the decimal is n / 2^k with n below 10^9 and k up to 9: a double as it
\* stands
curto(x) ==
    /\ Len(x.dig) <= 9
    /\ ordem(x) <= 15
    /\ x.exp >= -9
    /\ x.exp < 0 => Numero(x.dig) % Pot(5, 0 - x.exp) = 0

\* the double nearest to the decimal x, the one of even mantissa of two:
\* inf from 2^1024 - 2^970 on, zero up to 2^-1075
duplo(neg, x) ==
    LET final(m, q) ==
            IF m = <<>> THEN zero(neg)
            ELSE IF q > 971 \/ (q = 971 /\ m = Dois53.dig) THEN inf(neg)
            ELSE finito(neg, escala(normal(m, 0), q))
        mantissa(a) == final(inteiro_proximo(a.y), a.q)
        binario(q) == mantissa(ajusta(escala(x, 0 - q), q))
    IN  IF x.dig = <<>> THEN zero(neg)
        ELSE IF curto(x) THEN finito(neg, x)
        ELSE IF ordem(x) > 309 THEN inf(neg)
        ELSE IF ordem(x) < -323 THEN zero(neg)
        ELSE binario(q_inicial(x))

\* the double read from the digits d with the decimal exponent e
arredonda(neg, d, e) == duplo(neg, normal(d, e))

\* the exponent written by the digit values x: the conversion reads up to
\* nine digits after the leading zeros and takes 1100000000 for a longer one
expoente(x) ==
    LET lido(s) == IF Len(s) > 9 THEN 1100000000 ELSE Numero(s)
    IN  lido(sem_zeros_a_esquerda(x))

\* float(line): blanks stripped, an optional sign, then inf, infinity or nan
\* in any case, or digits with an optional point (46) and an optional
\* exponent after e or E (101, 69); [ok |-> FALSE] stands for ValueError
float(l) ==
    LET erro == [ok |-> FALSE, valor |-> nan]
        numero(neg, ip, fp, pe, xneg, xd) ==
            IF /\ todos_decimais(ip)
               /\ todos_decimais(fp)
               /\ Len(ip) + Len(fp) > 0
               /\ pe # 0 => (xd # <<>> /\ todos_decimais(xd))
            THEN [ok |-> TRUE,
                  valor |-> arredonda(neg, Algarismos(ip \o fp),
                                      (IF xneg THEN 0 - expoente(Algarismos(xd))
                                       ELSE expoente(Algarismos(xd))) - Len(fp))]
            ELSE erro
        partes(neg, m, pp, pe, x) ==
            numero(neg,
                   IF pp = 0 THEN m ELSE SubSeq(m, 1, pp - 1),
                   IF pp = 0 THEN <<>> ELSE SubSeq(m, pp + 1, Len(m)),
                   pe, negativo(x), sem_sinal(x))
        mantissa(neg, m, pe, x) == partes(neg, m, posicao(m, {46}), pe, x)
        expo(neg, u, pe) ==
            mantissa(neg,
                     IF pe = 0 THEN u ELSE SubSeq(u, 1, pe - 1),
                     pe,
                     IF pe = 0 THEN <<>> ELSE SubSeq(u, pe + 1, Len(u)))
        decimais(neg, u) == expo(neg, u, posicao(u, {101, 69}))
        palavra(neg, r, w) ==
            IF w \in {<<105, 110, 102>>, <<105, 110, 102, 105, 110, 105, 116, 121>>}
            THEN [ok |-> TRUE, valor |-> inf(neg)]
            ELSE IF w = <<110, 97, 110>>
            THEN [ok |-> TRUE, valor |-> nan]
            ELSE IF sublinhados_validos(r)
            THEN decimais(neg, sem_sublinhados(r))
            ELSE erro
        sinal(neg, r) == palavra(neg, r, minusculas(r))
        linha(s) == sinal(negativo(s), sem_sinal(s))
    IN  linha(strip(l))

\* ------------------------------------------------------- float arithmetic
\* The accounts of the menu hold floats: a sum or a difference is the double
\* nearest to the sum or the difference of the two doubles.

\* the digit values of a natural number (<<>> for 0)
RECURSIVE DigitosDe(_)
DigitosDe(n) == IF n = 0 THEN <<>> ELSE Append(DigitosDe(n \div 10), n % 10)

\* float(i) of a Python int of the model, which a double holds exactly
de_int(i) == finito(i < 0, normal(DigitosDe(IF i < 0 THEN 0 - i ELSE i), 0))

\* the digit of the decimal x at the power p of ten
casa(x, p) == algarismo(x.dig, Len(x.dig) - (p - x.exp))

\* the digits of x from the power hi of ten down to the power lo
casas(x, lo, hi) == [k \in 1..(hi - lo + 1) |-> casa(x, hi + 1 - k)]

\* the digits of a + b for two sequences of digits of one length, the first
\* digit of both being 0: a digit takes the carry of the nearest place at
\* its right where the sum of the digits is not 9
mais(a, b) ==
    LET vai(k) ==
            /\ \E j \in (k + 1)..Len(a) : a[j] + b[j] # 9
            /\ LET p == CHOOSE j \in (k + 1)..Len(a) :
                            /\ a[j] + b[j] # 9
                            /\ \A m \in (k + 1)..(j - 1) : a[m] + b[m] = 9
               IN  a[p] + b[p] > 9
    IN  [k \in 1..Len(a) |-> (a[k] + b[k] + (IF vai(k) THEN 1 ELSE 0)) % 10]

\* the digits of a - b for two sequences of digits of one length, a not
\* below b: a digit lends to the nearest place at its right where the digits
\* differ
menos(a, b) ==
    LET vem(k) ==
            /\ \E j \in (k + 1)..Len(a) : a[j] # b[j]
            /\ LET p == CHOOSE j \in (k + 1)..Len(a) :
                            /\ a[j] # b[j]
                            /\ \A m \in (k + 1)..(j - 1) : a[m] = b[m]
               IN  a[p] < b[p]
    IN  [k \in 1..Len(a) |-> (10 + a[k] - b[k] - (IF vem(k) THEN 1 ELSE 0)) % 10]

\* a > b: False when either is nan
maior(a, b) ==
    IF a.t = "nan" \/ b.t = "nan" THEN FALSE
    ELSE IF a.t = "inf" THEN ~a.neg /\ ~(b.t = "inf" /\ ~b.neg)
    ELSE IF b.t = "inf" THEN b.neg
    ELSE IF a.dig = <<>> /\ b.dig = <<>> THEN FALSE
    ELSE IF a.neg # b.neg THEN b.neg
    ELSE IF a.neg THEN dec_menor(a, b)
    ELSE dec_menor(b, a)

\* a <= b: False when either is nan
menor_igual(a, b) == a.t # "nan" /\ b.t # "nan" /\ ~maior(a, b)

\* a + b of two finite floats: the sum of the decimals, of their difference
\* with the sign of the larger one, rounded to a double
soma_finitos(a, b) ==
    LET lo == IF a.exp < b.exp THEN a.exp ELSE b.exp
        hi == IF ordem(a) < ordem(b) THEN ordem(b) ELSE ordem(a)
        calcula(x, y) ==
            IF a.neg = b.neg THEN arredonda(a.neg, mais(x, y), lo)
            ELSE IF dec_menor(a, b) THEN arredonda(b.neg, menos(y, x), lo)
            ELSE IF dec_menor(b, a) THEN arredonda(a.neg, menos(x, y), lo)
            ELSE zero(FALSE)
    IN  calcula(casas(a, lo, hi), casas(b, lo, hi))

\* a + b
soma(a, b) ==
    IF a.t = "nan" \/ b.t = "nan" THEN nan
    ELSE IF a.t = "inf" THEN (IF b.t = "inf" /\ b.neg # a.neg THEN nan ELSE a)
    ELSE IF b.t = "inf" THEN b
    ELSE soma_finitos(a, b)

\* a - b
subtrai(a, b) == soma(a, IF b.t = "nan" THEN b ELSE [b EXCEPT !.neg = ~b.neg])

\* Conta.depositar (v04) on the float amount of the menu
Conta_depositar_float(s, v) ==
    IF menor_igual(v, de_int(0))
    THEN [ret |-> FALSE, motivo |-> ValorInvalido, saldo |-> s]
    ELSE [ret |-> TRUE, motivo |-> Sucesso, saldo |-> soma(s, v)]

\* Conta.sacar (v04) on the float amount of the menu
Conta_sacar_float(s, v) ==
    IF maior(v, s)
    THEN [ret |-> FALSE, motivo |-> SaldoInsuficiente, saldo |-> s]
    ELSE IF menor_igual(v, de_int(0))
         THEN [ret |-> FALSE, motivo |-> ValorInvalido, saldo |-> s]
         ELSE [ret |-> TRUE, motivo |-> Sucesso, saldo |-> subtrai(s, v)]

\* ContaCorrente.sacar (v04) on the float amount of the menu
ContaCorrente_sacar_float(s, ts, lim, lim_saques, v) ==
    IF maior(v, de_int(lim))
    THEN [ret |-> FALSE, motivo |-> LimiteExcedido, saldo |-> s]
    ELSE IF numero_saques(ts) >= lim_saques
         THEN [ret |-> FALSE, motivo |-> SaquesExcedidos, saldo |-> s]
         ELSE Conta_sacar_float(s, v)

\* ------------------------------------------------------------ menu loop

\* the lines typed at the prompts
\* "11111111111", eleven times the superscript two, "aaaaaaaaaaa"
CPFUm == [i \in 1..TamanhoCPF |-> 49]
CPFSobrescrito == [i \in 1..TamanhoCPF |-> 178]
CPFLetras == [i \in 1..TamanhoCPF |-> 97]
\* the three of them and "123"
LinhasCPF == {CPFUm, CPFSobrescrito, CPFLetras, <<49, 50, 51>>}
\* "100", "0", "abc", "1.5", " 1_0e1", "nan", "inf"
LinhasValor ==
    {<<49, 48, 48>>, <<48>>, <<97, 98, 99>>, <<49, 46, 53>>,
     <<32, 49, 95, 48, 101, 49>>, <<110, 97, 110>>, <<105, 110, 102>>}
\* "0", "-1", "-3", "x", " 1", "1_0", the Arabic-Indic one
LinhasEscolha ==
    {<<48>>, <<45, 49>>, <<45, 51>>, <<120>>, <<32, 49>>, <<49, 95, 48>>, <<1633>>}

\* validar_cpf
validar_cpf(cpf) == Len(cpf) = TamanhoCPF /\ isdigit(cpf)

\* filtrar_cliente: is there a cliente with this cpf
filtrar_cliente(cpf, cls) == \E i \in 1..Len(cls) : cls[i] = cpf

\* obter_valor: None (ok = FALSE) on ValueError and on a value <= 0, which
\* nan is not
obter_valor(l) ==
    LET positivo(f) ==
            IF f.ok /\ ~menor_igual(f.valor, de_int(0))
            THEN [ok |-> TRUE, valor |-> f.valor]
            ELSE [ok |-> FALSE, valor |-> de_int(0)]
    IN  positivo(float(l))

\* the elements of a set of numbers in increasing order
RECURSIVE EmOrdem(_)
EmOrdem(S) ==
    IF S = {} THEN <<>>
    ELSE LET m == CHOOSE x \in S : \A y \in S : x <= y
         IN <<m>> \o EmOrdem(S \ {m})

\* cliente.contas: the positions in contas of the accounts of the cliente, in
\* the order criar_conta appended them
contas_de(cpf, cts) == EmOrdem({i \in 1..Len(cts) : cts[i].cliente = cpf})

\* a Python int as an index of a list: one of more than nine digits is
\* beyond the ends of any list, as ten to the ninth is
indice(v) ==
    LET n == IF Len(v.dig) > 9 THEN 1000000000 ELSE Numero(v.dig)
    IN  IF v.neg THEN 0 - n ELSE n

\* recuperar_conta_cliente: None without accounts, the only account, or
\* cliente.contas[int(line)] with Python's indexing (negative from the end);
\* int may raise ValueError and the indexing IndexError
recuperar_conta_cliente(cpf, cts, l) ==
    LET cs == contas_de(cpf, cts)
        n == Len(cs)
        e == int(l)
        escolha == indice(e.valor)
    IN  IF n = 0 THEN [tipo |-> "None", idx |-> 0]
        ELSE IF n = 1 THEN [tipo |-> "Conta", idx |-> cs[1]]
        ELSE IF ~e.ok THEN [tipo |-> "ValueError", idx |-> 0]
        ELSE IF escolha >= n \/ escolha < 0 - n THEN [tipo |-> "IndexError", idx |-> 0]
        ELSE IF escolha >= 0 THEN [tipo |-> "Conta", idx |-> cs[escolha + 1]]
        ELSE [tipo |-> "Conta", idx |-> cs[n + escolha + 1]]

\* ContaCorrente.nova_conta(cliente=cliente, numero=numero_conta)
nova_conta(cpf) == [cliente |-> cpf, saldo |-> de_int(0), transacoes |-> <<>>]

\* the messages of the handlers
ClienteNaoEncontrado == "ClienteNaoEncontrado"
ClienteSemConta == "ClienteSemConta"
CPFInvalido == "CPFInvalido"
ClienteJaExiste == "ClienteJaExiste"
OperacaoInvalida == "OperacaoInvalida"
Erros == {ClienteNaoEncontrado, ClienteSemConta, CPFInvalido, ClienteJaExiste,
          OperacaoInvalida, ValorInvalido, SaldoInsuficiente, LimiteExcedido,
          SaquesExcedidos, "ValueError", "IndexError"}

\* the handler returned (or raised) without touching clientes and contas
Termina(o, m) ==
    /\ opcao' = o
    /\ mensagem' = m
    /\ pc' = (IF m \in {"ValueError", "IndexError"} THEN "excecao" ELSE "menu")
    /\ UNCHANGED <<clientes, contas>>

\* number of history entries of all the accounts of the list
RECURSIVE total_transacoes(_)
total_transacoes(cts) ==
    IF cts = <<>> THEN 0
    ELSE Len(Head(cts).transacoes) + total_transacoes(Tail(cts))

\* cliente.realizar_transacao(conta, transacao) on the account at position i
Movimenta(o, i, r, t) ==
    /\ r.ret => total_transacoes(contas) < MaxTransacoesMenu
    /\ r.saldo.t = "fin" => menor_igual(r.saldo, de_int(MaxSaldo))
    /\ contas' = [contas EXCEPT ![i].saldo = r.saldo,
                                ![i].transacoes = registrar(@, t, r.ret)]
    /\ opcao' = o
    /\ mensagem' = r.motivo
    /\ pc' = "menu"
    /\ UNCHANGED clientes

\* option "d": depositar(clientes)
depositar(cpf, lv, le) ==
    LET v == obter_valor(lv)
        c == recuperar_conta_cliente(cpf, contas, le)
    IN
    /\ pc = "menu"
    /\ IF ~filtrar_cliente(cpf, clientes) THEN Termina("d", ClienteNaoEncontrado)
       ELSE IF ~v.ok THEN Termina("d", ValorInvalido)
       ELSE IF c.tipo = "None" THEN Termina("d", ClienteSemConta)
       ELSE IF c.tipo # "Conta" THEN Termina("d", c.tipo)
       ELSE Movimenta("d", c.idx,
                      Conta_depositar_float(contas[c.idx].saldo, v.valor),
                      Deposito(v.valor))
    /\ UNCHANGED contaVars

\* option "s": sacar(clientes)
sacar(cpf, lv, le) ==
    LET v == obter_valor(lv)
        c == recuperar_conta_cliente(cpf, contas, le)
    IN
    /\ pc = "menu"
    /\ IF ~filtrar_cliente(cpf, clientes) THEN Termina("s", ClienteNaoEncontrado)
       ELSE IF ~v.ok THEN Termina("s", ValorInvalido)
       ELSE IF c.tipo = "None" THEN Termina("s", ClienteSemConta)
       ELSE IF c.tipo # "Conta" THEN Termina("s", c.tipo)
       ELSE Movimenta("s", c.idx,
                      ContaCorrente_sacar_float(contas[c.idx].saldo,
                                                contas[c.idx].transacoes,
                                                LimitePadrao, LimiteSaquesPadrao,
                                                v.valor),
                      Saque(v.valor))
    /\ UNCHANGED contaVars

\* option "e": exibir_extrato(clientes)
exibir_extrato(cpf, le) ==
    LET c == recuperar_conta_cliente(cpf, contas, le) IN
    /\ pc = "menu"
    /\ IF ~filtrar_cliente(cpf, clientes) THEN Termina("e", ClienteNaoEncontrado)
       ELSE IF c.tipo = "None" THEN Termina("e", ClienteSemConta)
       ELSE IF c.tipo # "Conta" THEN Termina("e", c.tipo)
       ELSE Termina("e", "Extrato")
    /\ UNCHANGED contaVars

\* option "nu": criar_cliente(clientes)
criar_cliente(cpf) ==
    /\ pc = "menu"
    /\ IF ~validar_cpf(cpf) THEN Termina("nu", CPFInvalido)
       ELSE IF filtrar_cliente(cpf, clientes) THEN Termina("nu", ClienteJaExiste)
       ELSE /\ Len(clientes) < MaxClientes
            /\ clientes' = Append(clientes, cpf)
            /\ opcao' = "nu"
            /\ mensagem' = Sucesso
            /\ pc' = "menu"
            /\ UNCHANGED contas
    /\ UNCHANGED contaVars

\* option "nc": criar_conta(len(contas) + 1, clientes, contas)
criar_conta(cpf) ==
    /\ pc = "menu"
    /\ IF ~filtrar_cliente(cpf, clientes) THEN Termina("nc", ClienteNaoEncontrado)
       ELSE /\ Len(contas) < MaxContas
            /\ contas' = Append(contas, nova_conta(cpf))
            /\ opcao' = "nc"
            /\ mensagem' = Sucesso
            /\ pc' = "menu"
            /\ UNCHANGED clientes
    /\ UNCHANGED contaVars

\* option "lc": listar_contas(contas)
listar_contas ==
    /\ pc = "menu"
    /\ Termina("lc", "Contas")
    /\ UNCHANGED contaVars

\* option "lu": listar_usuarios(clientes)
listar_usuarios ==
    /\ pc = "menu"
    /\ Termina("lu", "Usuarios")
    /\ UNCHANGED contaVars

\* option "q": break
sair ==
    /\ pc = "menu"
    /\ opcao' = "q"
    /\ mensagem' = "Obrigado"
    /\ pc' = "fim"
    /\ UNCHANGED <<clientes, contas>>
    /\ UNCHANGED contaVars

\* any other line: "Operação inválida"
opcao_invalida ==
    /\ pc = "menu"
    /\ Termina("x", OperacaoInvalida)
    /\ UNCHANGED contaVars

\* the lines a handler gets to read: the amount once buscar_cliente found
\* the cliente, the choice of account when the amount (if one was asked) is
\* valid and the cliente has several accounts; where input is not called no
\* line is consumed (<<>> stands for none)
valores_lidos(cpf) ==
    IF filtrar_cliente(cpf, clientes) THEN LinhasValor ELSE {<<>>}

escolhas_lidas(cpf, valido) ==
    IF filtrar_cliente(cpf, clientes) /\ valido /\ Len(contas_de(cpf, contas)) > 1
    THEN LinhasEscolha
    ELSE {<<>>}

\* main: one iteration of the while loop
main ==
    \/ \E cpf \in LinhasCPF : \E lv \in valores_lidos(cpf) :
           \E le \in escolhas_lidas(cpf, obter_valor(lv).ok) : depositar(cpf, lv, le)
    \/ \E cpf \in LinhasCPF : \E lv \in valores_lidos(cpf) :
           \E le \in escolhas_lidas(cpf, obter_valor(lv).ok) : sacar(cpf, lv, le)
    \/ \E cpf \in LinhasCPF : \E le \in escolhas_lidas(cpf, TRUE) : exibir_extrato(cpf, le)
    \/ \E cpf \in LinhasCPF : criar_cliente(cpf)
    \/ \E cpf \in LinhasCPF : criar_conta(cpf)
    \/ listar_contas
    \/ listar_usuarios
    \/ sair
    \/ opcao_invalida

\* the accounts the menu creates are ContaCorrente objects of the v04 file
\* with the default limite and limite_saques
InitMenu ==
    /\ Init
    /\ versao = "v04"
    /\ classe = "ContaCorrente"
    /\ limite_saques = LimiteSaquesPadrao

SpecMenu == InitMenu /\ [][main]_vars

\* ----------------------------------------------------------------- claims

\* the last call was a withdrawal on the account, direct or through a Saque
ESaque == op = "sacar" \/ (op = "realizar_transacao" /\ transacao.tipo = "Saque")
\* the last call was a deposit on the account, direct or through a Deposito
EDeposito == op = "depositar" \/ (op = "realizar_transacao" /\ transacao.tipo = "Deposito")
\* the last call was cliente.realizar_transacao(conta, Saque(valor))
ESaqueRegistrado == op = "realizar_transacao" /\ transacao.tipo = "Saque"
\* the policy checks of the account let a withdrawal of v through
Permitido(v) ==
    \/ classe = "Conta"
    \/ (v <= limite /\ numero_saques(transacoes) < limite_saques)

\* C1 (as stated): once limite_saques Saque entries are recorded, every
\* further Saque applied through realizar_transacao fails with the
\* "number of withdrawals exceeded" reason, balance and history unchanged.
C1_Original ==
    [][ (classe = "ContaCorrente"
         /\ numero_saques(transacoes) >= limite_saques
         /\ ESaqueRegistrado')
        => (/\ ret' = FALSE
            /\ motivo' = SaquesExcedidos
            /\ saldo' = saldo
            /\ transacoes' = transacoes) ]_vars

\* C1 (amended): once limite_saques Saque entries are recorded, every further
\* Saque applied through realizar_transacao fails and leaves balance and
\* history unchanged; the reason is "number of withdrawals exceeded" whenever
\* the amount is not above limite (also when it is positive and affordable)
\* and "limit exceeded" when the amount is above limite.
C1_SaquesExcedidos ==
    [][ (classe = "ContaCorrente"
         /\ numero_saques(transacoes) >= limite_saques
         /\ ESaqueRegistrado')
        => (/\ ret' = FALSE
            /\ motivo' = (IF valor' > limite THEN LimiteExcedido ELSE SaquesExcedidos)
            /\ saldo' = saldo
            /\ transacoes' = transacoes) ]_vars

\* the 4th Saque of a positive, affordable, within-limit amount was refused
C1_Witness ==
    /\ classe = "ContaCorrente"
    /\ limite_saques = LimiteSaquesPadrao
    /\ ESaqueRegistrado
    /\ numero_saques(transacoes) = limite_saques
    /\ valor > 0 /\ valor <= limite /\ valor <= saldo
    /\ ret = FALSE
    /\ motivo = SaquesExcedidos

\* C2 (as stated, under SpecDireto): with limite_saques = 3, once 3 direct
\* sacar calls have succeeded, the next direct sacar of a positive,
\* affordable, within-limit amount returns False for the number of
\* withdrawals and leaves the balance unchanged.
C2_LimiteSaquesDireto ==
    [][ (/\ classe = "ContaCorrente"
         /\ limite_saques = LimiteSaquesPadrao
         /\ saques_ok >= limite_saques
         /\ op' = "sacar"
         /\ valor' > 0 /\ valor' <= limite /\ valor' <= saldo)
        => (/\ ret' = FALSE
            /\ motivo' = SaquesExcedidos
            /\ saldo' = saldo) ]_vars

\* C3: depositar(a) and sacar(a) with a <= 0 return False and leave the
\* balance unchanged, on a Conta and on a ContaCorrente.
C3_ValorInvalido ==
    [][ ((ESaque' \/ EDeposito') /\ valor' <= 0)
        => (ret' = FALSE /\ saldo' = saldo) ]_vars

\* a withdrawal of a non-positive amount was refused on an account with money
C3_Witness ==
    /\ ESaque
    /\ valor <= 0
    /\ saldo > 0
    /\ ret = FALSE

\* C4 (as stated): on every account, sacar(a) with 0 < a <= B returns True
\* with new balance B - a, and with a > B returns False with balance B.
C4_Original ==
    [][ ESaque'
        => (/\ (valor' > saldo) => (ret' = FALSE /\ saldo' = saldo)
            /\ (valor' > 0 /\ valor' <= saldo)
                  => (ret' = TRUE /\ saldo' = saldo - valor')) ]_vars

\* C4 (amended): sacar(a) with a > B returns False with balance B on every
\* account; sacar(a) with 0 < a <= B returns True with new balance B - a on a
\* base Conta and on a ContaCorrente whose limite is not below a and whose
\* history holds fewer than limite_saques Saque entries; on a ContaCorrente
\* with a > limite or limite_saques Saque entries recorded it returns False
\* with balance B.
C4_Saque ==
    [][ ESaque'
        => (/\ (valor' > saldo) => (ret' = FALSE /\ saldo' = saldo)
            /\ (valor' > 0 /\ valor' <= saldo /\ Permitido(valor'))
                  => (ret' = TRUE /\ saldo' = saldo - valor')
            /\ (valor' > 0 /\ valor' <= saldo /\ ~Permitido(valor'))
                  => (ret' = FALSE /\ saldo' = saldo)) ]_vars

\* a ContaCorrente paid out its whole balance (a = B)
C4_Witness ==
    /\ classe = "ContaCorrente"
    /\ ESaque
    /\ valor > 0
    /\ ret = TRUE
    /\ saldo = 0

\* C5: on a ContaCorrente, sacar(a) with a > limite returns False and leaves
\* balance and history unchanged, whatever the balance and the number of
\* withdrawals made before.
C5_LimiteExcedido ==
    [][ (classe = "ContaCorrente" /\ ESaque' /\ valor' > limite)
        => (ret' = FALSE /\ saldo' = saldo /\ transacoes' = transacoes) ]_vars

\* a withdrawal above limite was refused although the balance covers it
C5_Witness ==
    /\ classe = "ContaCorrente"
    /\ ESaque
    /\ valor > limite
    /\ valor <= saldo
    /\ ret = FALSE

\* C6: realizar_transacao appends exactly one entry with the transaction's
\* tipo and valor after all earlier entries when the account accepted, and
\* leaves the history as it was when the account refused.
C6_Historico ==
    [][ op' = "realizar_transacao"
        => (/\ ret' = TRUE =>
                  transacoes' = Append(transacoes,
                                  [tipo |-> transacao'.tipo, valor |-> transacao'.valor])
            /\ ret' = FALSE => transacoes' = transacoes) ]_vars

\* a Saque was refused for lack of funds after two recorded transactions
C6_Witness ==
    /\ ESaqueRegistrado
    /\ ret = FALSE
    /\ motivo = SaldoInsuficiente
    /\ Len(transacoes) = 2
    /\ transacoes[1].tipo = "Deposito"
    /\ transacoes[2].tipo = "Saque"

\* C7 (as stated): a refused withdrawal on a ContaCorrente reports the invalid
\* amount first, then the insufficient balance, then the policy reasons.
C7_OrdemValidacao ==
    (classe = "ContaCorrente" /\ ESaque /\ ret = FALSE)
    => motivo \in (IF valor <= 0 THEN {ValorInvalido}
                   ELSE IF valor > saldo THEN {SaldoInsuficiente}
                   ELSE {LimiteExcedido, SaquesExcedidos})

\* C8 (as stated): no transaction object with amount <= 0 is ever passed to
\* realizar_transacao, its construction being rejected.
C8_ConstrucaoRejeitada ==
    op = "realizar_transacao" => transacao.valor > 0

\* C9: the balance is never negative, and a call that is not a successful
\* deposit or withdrawal leaves it unchanged (a successful deposit raises it,
\* a successful withdrawal lowers it).
C9_Saldo ==
    /\ [](saldo >= 0)
    /\ [][ /\ ret' = FALSE => saldo' = saldo
           /\ saldo' > saldo => (EDeposito' /\ ret' = TRUE)
           /\ saldo' < saldo => (ESaque' /\ ret' = TRUE) ]_vars

\* a base Conta refused a withdrawal above its positive balance
C9_Witness ==
    /\ classe = "Conta"
    /\ ESaque
    /\ ret = FALSE
    /\ motivo = SaldoInsuficiente
    /\ saldo > 0

\* C10 (as stated): depositar(a) with a > 0 succeeds, and a sacar(a) made
\* right after it succeeds and restores the balance held before the deposit.
C10_Original ==
    [][ /\ (EDeposito' /\ valor' > 0) => (ret' = TRUE /\ saldo' = saldo + valor')
        /\ (EDeposito /\ ret = TRUE /\ ESaque' /\ valor' = valor)
              => (ret' = TRUE /\ saldo' = saldo - valor) ]_vars

\* C10 (amended): depositar(a) with a > 0 succeeds; a sacar(a) made right
\* after it succeeds and restores the balance B held before the deposit on a
\* base Conta and on a ContaCorrente with a <= limite and fewer than
\* limite_saques Saque entries recorded; otherwise that sacar(a) returns False
\* and the balance stays B + a.
C10_IdaEVolta ==
    [][ /\ (EDeposito' /\ valor' > 0) => (ret' = TRUE /\ saldo' = saldo + valor')
        /\ (EDeposito /\ ret = TRUE /\ ESaque' /\ valor' = valor /\ Permitido(valor'))
              => (ret' = TRUE /\ saldo' = saldo - valor)
        /\ (EDeposito /\ ret = TRUE /\ ESaque' /\ valor' = valor /\ ~Permitido(valor'))
              => (ret' = FALSE /\ saldo' = saldo) ]_vars

\* a ContaCorrente is back at balance 0 after Deposito(a) then Saque(a)
C10_Witness ==
    /\ classe = "ContaCorrente"
    /\ ESaqueRegistrado
    /\ ret = TRUE
    /\ Len(transacoes) = 2
    /\ transacoes[1] = [tipo |-> "Deposito", valor |-> valor]
    /\ transacoes[2] = [tipo |-> "Saque", valor |-> valor]
    /\ saldo = 0

\* number of entries of the history whose tipo is tp
ContaTipo(ts, tp) == Cardinality({i \in 1..Len(ts) : ts[i].tipo = tp})

\* C11: on a ContaCorrente a withdrawal of a positive, affordable,
\* within-limit amount succeeds exactly when fewer than limite_saques Saque
\* entries are in the history: refused attempts (which record nothing) and
\* Deposito entries do not count, and the count ContaCorrente.sacar uses is
\* the number of Saque entries.
C11_QuotaSoSaquesRegistrados ==
    /\ [](numero_saques(transacoes) = ContaTipo(transacoes, "Saque"))
    /\ [][ (/\ classe = "ContaCorrente"
            /\ ESaque'
            /\ valor' > 0 /\ valor' <= saldo /\ valor' <= limite)
           => (/\ ret' = (ContaTipo(transacoes, "Saque") < limite_saques)
               /\ ~ret' => motivo' = SaquesExcedidos) ]_vars

\* with limite_saques = 2, a Saque succeeded after two recorded deposits
C11_Witness ==
    /\ classe = "ContaCorrente"
    /\ limite_saques < LimiteSaquesPadrao
    /\ ESaqueRegistrado
    /\ ret = TRUE
    /\ ContaTipo(transacoes, "Deposito") >= limite_saques
    /\ ContaTipo(transacoes, "Saque") = 1

\* the sum of the amounts of the entries of the history whose tipo is tp, as
\* sum() adds floats from the first entry on
RECURSIVE soma_tipo(_, _)
soma_tipo(ts, tp) ==
    IF ts = <<>> THEN de_int(0)
    ELSE soma(soma_tipo(SubSeq(ts, 1, Len(ts) - 1), tp),
              IF ts[Len(ts)].tipo = tp THEN ts[Len(ts)].valor ELSE de_int(0))

\* a == b of two floats: False when either is nan, True of the two zeros
igual(a, b) ==
    /\ a.t # "nan"
    /\ b.t # "nan"
    /\ a.t = b.t
    /\ a.dig = b.dig
    /\ a.exp = b.exp
    /\ a.dig # <<>> => a.neg = b.neg

\* C13 (as stated, under SpecMenu, where every movement goes through
\* cliente.realizar_transacao): the balance of every account is the sum of
\* the Deposito entries of its history minus the sum of its Saque entries,
\* and no ContaCorrente holds more than limite_saques Saque entries.
C13_LivroConsistente ==
    \A i \in 1..Len(contas) :
        /\ igual(contas[i].saldo,
                 subtrai(soma_tipo(contas[i].transacoes, "Deposito"),
                         soma_tipo(contas[i].transacoes, "Saque")))
        /\ numero_saques(contas[i].transacoes) <= LimiteSaquesPadrao

\* C12 (as stated, under SpecMenu): no outcome of a menu action ends the
\* process: control is back in the menu loop after every action, the loop
\* ends only on option "q", and an action that reported an error leaves
\* clientes and contas (accounts, balances, histories) unchanged.
C12_MenuNuncaFatal ==
    /\ [](pc \in {"menu", "fim"})
    /\ [][pc' = "fim" => opcao' = "q"]_vars
    /\ [][mensagem' \in Erros => (clientes' = clientes /\ contas' = contas)]_vars

====
